---------------------------- MODULE Spec2Model ----------------------------
(***************************************************************************)
(* A model of the wasabi JSON-RPC client (package wasabi): configuration   *)
(* validation, client construction, the request/response envelope codec    *)
(* and the do() pipeline that every RPC method wrapper goes through.       *)
(*                                                                         *)
(* Go strings are TLA+ strings; character-level operations (ContainsAny,   *)
(* base64, URL formatting and parsing, header canonicalisation) are        *)
(* computed on them with Len, SubSeq and \o.                               *)
(***************************************************************************)
EXTENDS Integers, Sequences, FiniteSets, TLC

(***************************************************************************)
(* Bounds of the model.                                                    *)
(***************************************************************************)
\* Number of goroutines that call methods concurrently.
NumGoroutines == 2

Goroutines == 1..NumGoroutines
\* The client instances; client c's Config uses map c of the heap.
Clients == {1, 2}

(***************************************************************************)
(* Strings.                                                                *)
(***************************************************************************)
\* The i-th character of s, as a one-character string.
Ch(s, i) == SubSeq(s, i, i)

\* strings.ContainsAny(s, chars)
ContainsAny(s, chars) ==
  \E i \in 1..Len(s) : \E j \in 1..Len(chars) : Ch(s, i) = Ch(chars, j)

\* Position (1-based) of the first occurrence of character c in s, 0 if none.
IndexOf(s, c) ==
  IF \E i \in 1..Len(s) : Ch(s, i) = c
    THEN CHOOSE i \in 1..Len(s) : Ch(s, i) = c /\ \A j \in 1..(i - 1) : Ch(s, j) # c
    ELSE 0

\* The byte value of the characters that occur in the model's strings.
AsciiTable ==
  << <<" ", 32>>, <<"%", 37>>, <<"-", 45>>, <<".", 46>>, <<"/", 47>>,
     <<"0", 48>>, <<"1", 49>>, <<"2", 50>>, <<"7", 55>>, <<":", 58>>,
     <<"A", 65>>, <<"X", 88>>, <<"a", 97>>, <<"b", 98>>, <<"h", 104>>,
     <<"i", 105>>, <<"k", 107>>, <<"p", 112>>, <<"u", 117>>, <<"w", 119>>,
     <<"x", 120>> >>

Ord(c) ==
  IF \E i \in 1..Len(AsciiTable) : AsciiTable[i][1] = c
    THEN AsciiTable[CHOOSE i \in 1..Len(AsciiTable) : AsciiTable[i][1] = c][2]
    ELSE 63

\* []byte(s)
Bytes(s) == [i \in 1..Len(s) |-> Ord(Ch(s, i))]

(***************************************************************************)
(* encoding/base64, StdEncoding (with padding).                            *)
(***************************************************************************)
Base64Alphabet == "ABCDEFGHIJKLMNOPQRSTUVWXYZabcdefghijklmnopqrstuvwxyz0123456789+/"

B64Char(n) == Ch(Base64Alphabet, n + 1)

\* The encoding of the bytes of b from index i on.
RECURSIVE EncodeFrom(_, _)
EncodeFrom(b, i) ==
  IF i > Len(b) THEN ""
  ELSE IF i = Len(b) THEN
    B64Char(b[i] \div 4) \o B64Char((b[i] % 4) * 16) \o "=="
  ELSE IF i + 1 = Len(b) THEN
    B64Char(b[i] \div 4) \o B64Char((b[i] % 4) * 16 + b[i + 1] \div 16)
      \o B64Char((b[i + 1] % 16) * 4) \o "="
  ELSE
    B64Char(b[i] \div 4) \o B64Char((b[i] % 4) * 16 + b[i + 1] \div 16)
      \o B64Char((b[i + 1] % 16) * 4 + b[i + 2] \div 64) \o B64Char(b[i + 2] % 64)
      \o EncodeFrom(b, i + 3)
EncodeToString(b) == EncodeFrom(b, 1)

(***************************************************************************)
(* Go maps (map[string]string) live on a heap and are held by reference:   *)
(* reference 0 is the nil map, reference m > 0 names heap[m], a set of     *)
(* <<key, value>> pairs with distinct keys.                                *)
(***************************************************************************)
NilMap == 0

MapKeys(m) == {kv[1] : kv \in m}

\* m[k] = v
MapSet(m, k, v) == {kv \in m : kv[1] # k} \cup {<<k, v>>}

(***************************************************************************)
(* Config (structs.go).  Transport is the environment and is not a field   *)
(* of the model's Config.                                                  *)
(***************************************************************************)
DefaultPort == 37128
MaxPort == 65535

MkConfig(host, port, headers, user, password) ==
  [Host |-> host, Port |-> port, CustomHeaders |-> headers,
   RpcUser |-> user, RpcPassword |-> password]

NoError == ""

\* A mutant of WithDefaultPort: the port is left as it is.
WithDefaultPort_Kept(c) == c

\* c.Port = 37128
WithDefaultPort(c) == [c EXCEPT !.Port = DefaultPort]

\* The errors the header loop of Validate can return for map m: the loop
\* ranges over the map in an unspecified order and returns at the first
\* offending entry it meets.
HeaderErrors(m) ==
  {"custom header key must not be empty" : kv \in {x \in m : x[1] = ""}}
    \cup {"custom header value must not be empty" : kv \in {x \in m : x[1] # "" /\ x[2] = ""}}
    \cup {"custom header key must not be Authorization" :
            kv \in {x \in m : x[1] = "Authorization" /\ x[2] # ""}}

\* One outcome of Validate: the error, the Config as Validate left it and
\* the heap as Validate left it.
Outcome(err, c, hp) == [err |-> err, cfg |-> c, heap |-> hp]

\* (c *Config) Validate(): a Go switch runs the first case whose condition
\* holds and no other.  fresh is the reference a newly made map gets.
Validate(c, hp, fresh) ==
  IF c.Host = "" THEN
    {Outcome("host must not be empty", c, hp)}
  ELSE IF ContainsAny(c.Host, "/:") THEN
    {Outcome("host must not contain / or :", c, hp)}
  ELSE IF c.Port = 0 THEN
    {Outcome(NoError, WithDefaultPort(c), hp)}
  ELSE IF c.Port < 0 \/ c.Port > MaxPort THEN
    {Outcome("port must be between 0 and 65535", c, hp)}
  ELSE IF c.RpcUser # "" /\ c.RpcPassword = "" THEN
    {Outcome("rpc password must not be empty if rpc user is set", c, hp)}
  ELSE IF c.RpcUser = "" /\ c.RpcPassword # "" THEN
    {Outcome("rpc user must not be empty if rpc password is set", c, hp)}
  ELSE IF c.CustomHeaders # NilMap THEN
    IF HeaderErrors(hp[c.CustomHeaders]) # {}
      THEN {Outcome(e, c, hp) : e \in HeaderErrors(hp[c.CustomHeaders])}
      ELSE {Outcome(NoError, c, hp)}
  ELSE IF c.RpcUser # "" /\ c.RpcPassword # "" THEN
    LET basicAuth == EncodeToString(Bytes(c.RpcUser \o ":" \o c.RpcPassword)) IN
    IF c.CustomHeaders # NilMap
      THEN {Outcome(NoError, c,
              [hp EXCEPT ![c.CustomHeaders] =
                 MapSet(@, "Authorization", "Basic " \o basicAuth)])}
      ELSE {Outcome(NoError, [c EXCEPT !.CustomHeaders = fresh],
              [hp EXCEPT ![fresh] = {<<"Authorization", "Basic " \o basicAuth>>}])}
  ELSE
    {Outcome(NoError, c, hp)}

(***************************************************************************)
(* JSON texts.  A JSON text is represented by its syntax tree, a record of *)
(* one shape [t, s, n, m]: t is the kind, s the text of a string (or of a  *)
(* non-integer number), n an integer number, m the members of an object or *)
(* the elements of an array, each a record [k, v] (k = "" in an array).    *)
(* Go values decoded from JSON use the same shape.                         *)
(***************************************************************************)
Node(t, s, n, m) == [t |-> t, s |-> s, n |-> n, m |-> m]
Member(k, v) == [k |-> k, v |-> v]

JNull == Node("null", "", 0, <<>>)
JStr(s) == Node("string", s, 0, <<>>)
JNum(n) == Node("number", "", n, <<>>)
\* A number with a fraction or exponent, given by its text.
JFloat(s) == Node("float", s, 0, <<>>)
JBool(b) == Node(IF b THEN "true" ELSE "false", "", 0, <<>>)
JObj(m) == Node("object", "", 0, m)
JArr(vs) == Node("array", "", 0, [i \in 1..Len(vs) |-> Member("", vs[i])])

\* The compact text of a JSON syntax tree: string(raw) for a json.RawMessage.
RECURSIVE Render(_)
RECURSIVE RenderMembers(_, _, _)
Render(v) ==
  IF v.t = "null" THEN "null"
  ELSE IF v.t = "string" THEN "\"" \o v.s \o "\""
  ELSE IF v.t = "number" THEN ToString(v.n)
  ELSE IF v.t = "float" THEN v.s
  ELSE IF v.t \in {"true", "false"} THEN v.t
  ELSE IF v.t = "object" THEN "{" \o RenderMembers(v.m, 1, TRUE) \o "}"
  ELSE "[" \o RenderMembers(v.m, 1, FALSE) \o "]"
RenderMembers(m, i, keyed) ==
  IF i > Len(m) THEN ""
  ELSE (IF i > 1 THEN "," ELSE "")
         \o (IF keyed THEN "\"" \o m[i].k \o "\":" ELSE "")
         \o Render(m[i].v) \o RenderMembers(m, i + 1, keyed)

(***************************************************************************)
(* Go values and Go types, as far as encoding/json sees them.              *)
(***************************************************************************)
GNil == Node("nil", "", 0, <<>>)
GString(s) == Node("gostring", s, 0, <<>>)
GInt(n) == Node("int", "", n, <<>>)
GBool(b) == Node("bool", "", IF b THEN 1 ELSE 0, <<>>)
GFloat(v) == Node("float64", v.s, v.n, <<>>)
GTime(s) == Node("time", s, 0, <<>>)
GPtr(v) == Node("ptr", "", 0, <<Member("", v)>>)
GStruct(fs) == Node("struct", "", 0, fs)
GSlice(es) == Node("slice", "", 0, es)
GMap(es) == Node("map", "", 0, es)
\* A non-nil *json.RawMessage holding the text of v.
GRaw(v) == Node("raw", "", 0, <<Member("", v)>>)

TString == [k |-> "string"]
TInt == [k |-> "int"]
TBool == [k |-> "bool"]
\* uint64 tagged `json:",string"`
TUint64Quoted == [k |-> "uint64,string"]
\* interface{}
TAny == [k |-> "any"]
\* *json.RawMessage
TRawPtr == [k |-> "rawptr"]
TStruct(fields) == [k |-> "struct", fields |-> fields]
TSlice(elem) == [k |-> "slice", elem |-> elem]
TMap(elem) == [k |-> "map", elem |-> elem]
\* time.Time decodes from a JSON string in RFC 3339 form; the model knows
\* the form "YYYY-MM-DDTHH:MM:SSZ".
TTime == [k |-> "time"]
\* float64
TFloat64 == [k |-> "float64"]
\* *T
TPtr(elem) == [k |-> "ptr", elem |-> elem]
Field(name, key, ty) == [name |-> name, key |-> key, ty |-> ty]

\* The zero value of a Go type.
RECURSIVE Zero(_)
Zero(ty) ==
  IF ty.k = "string" THEN GString("")
  ELSE IF ty.k \in {"int", "uint64,string"} THEN GInt(0)
  ELSE IF ty.k = "bool" THEN GBool(FALSE)
  ELSE IF ty.k = "float64" THEN GFloat(JNum(0))
  ELSE IF ty.k = "time" THEN GTime("0001-01-01T00:00:00Z")
  ELSE IF ty.k = "struct"
    THEN GStruct([i \in 1..Len(ty.fields) |->
                    Member(ty.fields[i].name, Zero(ty.fields[i].ty))])
  ELSE GNil

\* strings.ToLower on the letters of the model's keys.
UpperLetters == "ABCDEFGHIJKLMNOPQRSTUVWXYZ"
LowerLetters == "abcdefghijklmnopqrstuvwxyz"
ToLowerCh(c) == IF IndexOf(UpperLetters, c) > 0 THEN Ch(LowerLetters, IndexOf(UpperLetters, c)) ELSE c
ToUpperCh(c) == IF IndexOf(LowerLetters, c) > 0 THEN Ch(UpperLetters, IndexOf(LowerLetters, c)) ELSE c
\* strings.EqualFold on the letters of the model's keys.
EqualFold(a, b) ==
  Len(a) = Len(b) /\ \A i \in 1..Len(a) : ToLowerCh(Ch(a, i)) = ToLowerCh(Ch(b, i))

\* The index of the struct field a JSON key decodes into, 0 if none:
\* an exact match of the key is preferred, then a case-insensitive one.
FieldIndex(fields, key) ==
  IF \E i \in 1..Len(fields) : fields[i].key = key
    THEN CHOOSE i \in 1..Len(fields) : fields[i].key = key
  ELSE IF \E i \in 1..Len(fields) : EqualFold(fields[i].key, key)
    THEN CHOOSE i \in 1..Len(fields) :
           /\ EqualFold(fields[i].key, key)
           /\ \A j \in 1..(i - 1) : ~EqualFold(fields[j].key, key)
  ELSE 0

\* Whether s is the text of an unsigned decimal integer.
IsDigits(s) == s # "" /\ \A i \in 1..Len(s) : IndexOf("0123456789", Ch(s, i)) > 0
\* The number the first n digits of s spell.
RECURSIVE ParseDigits(_, _)
ParseDigits(s, n) ==
  IF n = 0 THEN 0
  ELSE ParseDigits(s, n - 1) * 10 + (IndexOf("0123456789", Ch(s, n)) - 1)
\* A mutant of ParseUint: only the first digit is read.
ParseUint_FirstDigit(s) == ParseDigits(s, 1)
\* strconv.ParseUint of a text of digits.
ParseUint(s) == ParseDigits(s, Len(s))

\* Whether s has the form YYYY-MM-DDTHH:MM:SSZ.
IsRFC3339(s) ==
  /\ Len(s) = 20
  /\ \A i \in {5, 8} : Ch(s, i) = "-"
  /\ Ch(s, 11) = "T"
  /\ \A i \in {14, 17} : Ch(s, i) = ":"
  /\ Ch(s, 20) = "Z"
  /\ \A i \in (1..19) \ {5, 8, 11, 14, 17} : IsDigits(Ch(s, i))

\* The result of a decode: the value as the decode left it, and whether a
\* decode error was found (encoding/json keeps decoding after a type
\* mismatch and reports the first one at the end).
Decoded(val, bad) == [val |-> val, bad |-> bad]

\* json.Unmarshal of the JSON text v into a Go value of type ty that
\* currently holds cur.
RECURSIVE Unmarshal(_, _, _)
RECURSIVE DecodeObject(_, _, _, _)
RECURSIVE DecodeElements(_, _, _, _)
\* A decoded value behind a pointer.
Pointed(d) == Decoded(GPtr(d.val), d.bad)
\* The decode acc of a struct so far, with field f set from the decode d of
\* one more member.
WithField(acc, f, d) == Decoded([acc.val EXCEPT !.m[f].v = d.val], acc.bad \/ d.bad)
\* The decode acc of a slice or map so far, with the decode d of one more
\* element appended under key k.
WithElement(acc, k, d) ==
  Decoded([acc.val EXCEPT !.m = Append(@, Member(k, d.val))], acc.bad \/ d.bad)
Unmarshal(v, ty, cur) ==
  IF ty.k = "rawptr" THEN
    IF v.t = "null" THEN Decoded(GNil, FALSE) ELSE Decoded(GRaw(v), FALSE)
  ELSE IF ty.k = "any" THEN
    IF v.t = "null" THEN Decoded(GNil, FALSE)
    ELSE IF v.t = "string" THEN Decoded(GString(v.s), FALSE)
    ELSE IF v.t \in {"number", "float"} THEN Decoded(GFloat(v), FALSE)
    ELSE IF v.t \in {"true", "false"} THEN Decoded(GBool(v.t = "true"), FALSE)
    ELSE DecodeElements(v.m, Len(v.m), TAny,
                        IF v.t = "object" THEN GMap(<<>>) ELSE GSlice(<<>>))
  ELSE IF v.t = "null" THEN
    \* null sets a slice, map or pointer to nil and leaves every other value alone
    IF ty.k \in {"slice", "map", "ptr"} THEN Decoded(GNil, FALSE) ELSE Decoded(cur, FALSE)
  ELSE IF ty.k = "string" THEN
    IF v.t = "string" THEN Decoded(GString(v.s), FALSE) ELSE Decoded(cur, TRUE)
  ELSE IF ty.k = "int" THEN
    IF v.t = "number" THEN Decoded(GInt(v.n), FALSE) ELSE Decoded(cur, TRUE)
  ELSE IF ty.k = "uint64,string" THEN
    IF v.t = "string" /\ IsDigits(v.s) THEN Decoded(GInt(ParseUint(v.s)), FALSE)
    ELSE Decoded(cur, TRUE)
  ELSE IF ty.k = "bool" THEN
    IF v.t \in {"true", "false"} THEN Decoded(GBool(v.t = "true"), FALSE)
    ELSE Decoded(cur, TRUE)
  ELSE IF ty.k = "float64" THEN
    IF v.t \in {"number", "float"} THEN Decoded(GFloat(v), FALSE) ELSE Decoded(cur, TRUE)
  ELSE IF ty.k = "time" THEN
    IF v.t = "string" /\ IsRFC3339(v.s) THEN Decoded(GTime(v.s), FALSE) ELSE Decoded(cur, TRUE)
  ELSE IF ty.k = "ptr" THEN
    Pointed(Unmarshal(v, ty.elem, Zero(ty.elem)))
  ELSE IF ty.k = "struct" THEN
    IF v.t = "object" THEN DecodeObject(v.m, Len(v.m), ty, cur) ELSE Decoded(cur, TRUE)
  ELSE IF (ty.k = "slice" /\ v.t = "array") \/ (ty.k = "map" /\ v.t = "object") THEN
    DecodeElements(v.m, Len(v.m), ty.elem,
                   IF ty.k = "map" /\ cur.t = "map" THEN cur
                   ELSE IF ty.k = "map" THEN GMap(<<>>) ELSE GSlice(<<>>))
  ELSE Decoded(cur, TRUE)
\* One more member mem of a JSON object into field f of the struct decoded
\* so far; a member that names no field (f = 0) is skipped.
DecodeMember(acc, f, mem, ty) ==
  IF f = 0 THEN acc
  ELSE WithField(acc, f, Unmarshal(mem.v, ty.fields[f].ty, acc.val.m[f].v))
\* The first n members of a JSON object, in order, into the fields of
\* struct cur.
DecodeObject(m, n, ty, cur) ==
  IF n = 0 THEN Decoded(cur, FALSE)
  ELSE DecodeMember(DecodeObject(m, n - 1, ty, cur), FieldIndex(ty.fields, m[n].k), m[n], ty)
\* The first n elements of a JSON array (or members of an object decoded
\* into a map), in order, appended to cur.
DecodeElements(m, n, elem, cur) ==
  IF n = 0 THEN Decoded(cur, FALSE)
  ELSE WithElement(DecodeElements(m, n - 1, elem, cur), m[n].k,
                   Unmarshal(m[n].v, elem, Zero(elem)))

(***************************************************************************)
(* Result types of the RPC methods (structs.go).                           *)
(***************************************************************************)
BitcoinPeer ==
  TStruct(<<Field("IsConnected", "isConnected", TBool),
            Field("LastSeen", "lastSeen", TTime),
            Field("Endpoint", "endpoint", TString),
            Field("UserAgent", "userAgent", TString)>>)

GetStatusResponse ==
  TStruct(<<Field("TorStatus", "torStatus", TString),
            Field("BackendStatus", "backendStatus", TString),
            Field("BestBlockchainHeight", "bestBlockchainHeight", TUint64Quoted),
            Field("BestBlockchainHash", "bestBlockchainHash", TString),
            Field("FiltersCount", "filtersCount", TInt),
            Field("FiltersLeft", "filtersLeft", TInt),
            Field("Network", "network", TString),
            Field("ExchangeRate", "exchangeRate", TFloat64),
            Field("Peers", "peers", TSlice(BitcoinPeer))>>)

ListCoinsResponse ==
  TStruct(<<Field("TxID", "txid", TString),
            Field("Index", "index", TInt),
            Field("Amount", "amount", TInt),
            Field("AnonymityScore", "anonymityScore", TFloat64),
            Field("Confirmed", "confirmed", TBool),
            Field("Confirmations", "confirmations", TInt),
            Field("KeyPath", "keyPath", TString),
            Field("Address", "address", TString),
            Field("SpentBy", "spentBy", TPtr(TString)),
            Field("Label", "label", TString),
            Field("ExcludedFromCoinJoin", "excludedFromCoinjoin", TBool)>>)

WalletInfoAccount ==
  TStruct(<<Field("Name", "name", TString),
            Field("PublicKey", "publicKey", TString),
            Field("KeyPath", "keyPath", TString)>>)

GetWalletInfoResponse ==
  TStruct(<<Field("WalletName", "walletName", TString),
            Field("WalletFile", "walletFile", TString),
            Field("State", "state", TString),
            Field("MasterKeyFingerprint", "masterKeyFingerprint", TString),
            Field("AnonScoreTarget", "anonScoreTarget", TInt),
            Field("IsWatchOnly", "isWatchOnly", TBool),
            Field("IsHardwareWallet", "isHardwareWallet", TBool),
            Field("IsAutoCoinJoin", "isAutoCoinjoin", TBool),
            Field("IsRedCoinIsolation", "isRedCoinIsolation", TBool),
            Field("Accounts", "accounts", TSlice(WalletInfoAccount)),
            Field("Balance", "balance", TInt),
            Field("CoinJoinStatus", "coinjoinStatus", TString)>>)

GetNewAddressResponse ==
  TStruct(<<Field("Address", "address", TString),
            Field("KeyPath", "keyPath", TString),
            Field("Label", "label", TString),
            Field("PublicKey", "publicKey", TString),
            Field("ScriptPubKey", "scriptPubKey", TString)>>)

SendResponse ==
  TStruct(<<Field("TransactionID", "txid", TString),
            Field("Transaction", "tx", TString)>>)

Transaction ==
  TStruct(<<Field("DateTime", "datetime", TTime),
            Field("Height", "height", TInt),
            Field("Amount", "amount", TInt),
            Field("Label", "label", TString),
            Field("Tx", "tx", TString),
            Field("IsLikelyCoinJoin", "islikelycoinjoin", TBool)>>)

GeneratedKey ==
  TStruct(<<Field("FullKeyPath", "fullKeyPath", TString),
            Field("Internal", "internal", TBool),
            Field("KeyState", "keyState", TInt),
            Field("Label", "label", TString),
            Field("ScriptPubKey", "scriptPubKey", TString),
            Field("PubKey", "pubkey", TString),
            Field("PubKeyHash", "pubKeyHash", TString),
            Field("Address", "address", TString)>>)

GetFeeRatesResponse == TMap(TInt)

ListWalletsResponseItem == TStruct(<<Field("Name", "walletName", TString)>>)

PaymentInCoinJoinStateHistoryItem ==
  TStruct(<<Field("Status", "status", TString),
            Field("Round", "round", TInt),
            Field("TxID", "txid", TString)>>)

ListPaymentsInCoinJoinResponseItem ==
  TStruct(<<Field("ID", "id", TString),
            Field("Amount", "amount", TInt),
            Field("Destination", "destination", TString),
            Field("State", "state", TSlice(PaymentInCoinJoinStateHistoryItem)),
            Field("Address", "address", TString)>>)

(***************************************************************************)
(* json.Marshal of a Go value of a given type: what a server that holds    *)
(* the value puts on the wire.                                             *)
(***************************************************************************)
\* The Go names of the fields of struct type ty that are tagged omitempty.
OmitEmpty(ty) ==
  IF ty = ListCoinsResponse THEN {"SpentBy", "Label"}
  ELSE IF ty = GetWalletInfoResponse THEN {"Balance", "CoinJoinStatus"}
  ELSE IF ty = PaymentInCoinJoinStateHistoryItem THEN {"Round", "TxID"}
  ELSE {}

\* What omitempty takes for empty: false, 0, a nil pointer, and a string,
\* slice or map of length zero.
IsEmptyValue(v) ==
  \/ v.t = "nil"
  \/ v.t \in {"bool", "int"} /\ v.n = 0
  \/ v.t = "float64" /\ v.s = "" /\ v.n = 0
  \/ v.t = "gostring" /\ v.s = ""
  \/ v.t \in {"slice", "map"} /\ Len(v.m) = 0

\* A JSON object with one more member, unless the member is left out.
WithMember(members, omit, key, j) == IF omit THEN members ELSE Append(members, Member(key, j))

RECURSIVE Marshal(_, _)
RECURSIVE MarshalFields(_, _, _)
RECURSIVE MarshalElements(_, _, _)
\* json.Marshal(v) for v of type ty.  (The members of a map are written in
\* the order of their keys, which is the order the model's maps keep.)
Marshal(v, ty) ==
  IF v.t = "nil" THEN JNull
  ELSE IF ty.k = "string" THEN JStr(v.s)
  ELSE IF ty.k = "int" THEN JNum(v.n)
  ELSE IF ty.k = "uint64,string" THEN JStr(ToString(v.n))
  ELSE IF ty.k = "bool" THEN JBool(v.n = 1)
  ELSE IF ty.k = "float64" THEN (IF v.s = "" THEN JNum(v.n) ELSE JFloat(v.s))
  ELSE IF ty.k = "time" THEN JStr(v.s)
  ELSE IF ty.k = "ptr" THEN Marshal(v.m[1].v, ty.elem)
  ELSE IF ty.k = "struct" THEN JObj(MarshalFields(v, ty, Len(ty.fields)))
  ELSE IF ty.k = "map" THEN JObj(MarshalElements(v, ty.elem, Len(v.m)))
  ELSE Node("array", "", 0, MarshalElements(v, ty.elem, Len(v.m)))
\* The members for the first n fields of struct v.
MarshalFields(v, ty, n) ==
  IF n = 0 THEN <<>>
  ELSE WithMember(MarshalFields(v, ty, n - 1),
                  ty.fields[n].name \in OmitEmpty(ty) /\ IsEmptyValue(v.m[n].v),
                  ty.fields[n].key, Marshal(v.m[n].v, ty.fields[n].ty))
\* The first n elements of slice v, or members of map v.
MarshalElements(v, elem, n) ==
  IF n = 0 THEN <<>>
  ELSE Append(MarshalElements(v, elem, n - 1), Member(v.m[n].k, Marshal(v.m[n].v, elem)))

(***************************************************************************)
(* The RPC methods: Go name, wire name (part_000), whether the wrapper     *)
(* passes walletName as the URL segment, whether it passes a reply target  *)
(* to do, and the type of that target (client.go, the method wrappers).    *)
(***************************************************************************)
TNone == [k |-> "none"]

MethodOf(name, wire, scoped, payload, ty) ==
  [name |-> name, wire |-> wire, scoped |-> scoped, payload |-> payload, ty |-> ty]

MethodTable ==
  << MethodOf("GetStatus", "getstatus", FALSE, TRUE, GetStatusResponse),
     MethodOf("CreateWallet", "createwallet", FALSE, TRUE, TString),
     MethodOf("LoadWallet", "loadwallet", FALSE, FALSE, TNone),
     MethodOf("ListCoins", "listcoins", TRUE, TRUE, TSlice(ListCoinsResponse)),
     MethodOf("ListUnspentCoins", "listunspentcoins", TRUE, TRUE, TSlice(ListCoinsResponse)),
     MethodOf("GetWalletInfo", "getwalletinfo", TRUE, TRUE, GetWalletInfoResponse),
     MethodOf("GetNewAddress", "getnewaddress", TRUE, TRUE, GetNewAddressResponse),
     MethodOf("Send", "send", TRUE, TRUE, SendResponse),
     MethodOf("Build", "build", TRUE, TRUE, TString),
     MethodOf("Broadcast", "broadcast", TRUE, TRUE, TString),
     MethodOf("GetHistory", "gethistory", TRUE, TRUE, TSlice(Transaction)),
     MethodOf("ListKeys", "listkeys", TRUE, TRUE, TSlice(GeneratedKey)),
     MethodOf("StartCoinJoin", "startcoinjoin", TRUE, FALSE, TNone),
     MethodOf("StartCoinJoinSweep", "startcoinjoinsweep", TRUE, FALSE, TNone),
     MethodOf("StopCoinJoin", "stopcoinjoin", TRUE, FALSE, TNone),
     MethodOf("Stop", "stop", FALSE, FALSE, TNone),
     MethodOf("GetFeeRates", "getfeerates", FALSE, TRUE, GetFeeRatesResponse),
     MethodOf("ListWallets", "listwallets", FALSE, TRUE, TSlice(ListWalletsResponseItem)),
     MethodOf("ExcludeFromCoinJoin", "excludefromcoinjoin", TRUE, FALSE, TNone),
     MethodOf("RecoverWallet", "recoverwallet", FALSE, FALSE, TNone),
     MethodOf("BuildUnsafeTransaction", "buildunsafetransaction", TRUE, TRUE, TString),
     MethodOf("PayInCoinJoin", "payincoinjoin", TRUE, TRUE, TString),
     MethodOf("ListPaymentsInCoinJoin", "listpaymentsincoinjoin", TRUE, TRUE,
              TSlice(ListPaymentsInCoinJoinResponseItem)),
     MethodOf("CancelPaymentInCoinJoin", "cancelpaymentincoinjoin", TRUE, FALSE, TNone),
     MethodOf("CancelTransaction", "canceltransaction", TRUE, TRUE, TString),
     MethodOf("SpeedUpTransaction", "speeduptransaction", TRUE, TRUE, TString) >>

Methods == 1..Len(MethodTable)

\* The method (an index of MethodTable) with the given Go name.
M(name) == CHOOSE i \in Methods : MethodTable[i].name = name

\* A mutant of Segment: every wrapper passes walletName.
Segment_Always(m, walletName) == walletName

\* The targetWalletName a wrapper passes to do.
Segment(m, walletName) == IF MethodTable[m].scoped THEN walletName ELSE ""

\* The params a wrapper passes to do, as json.Marshal writes them.  The
\* arguments other than walletName are fixed values.
PaymentsArg ==
  JArr(<<JObj(<<Member("sendto", JStr("a")), Member("amount", JNum(1)),
                Member("label", JStr("x"))>>)>>)
BuildArgs ==
  JObj(<<Member("coins", JArr(<<>>)), Member("feeTarget", JNum(2)),
         Member("password", JStr("p")), Member("payments", PaymentsArg)>>)
Params(m, walletName) ==
  LET n == MethodTable[m].name IN
  IF n = "CreateWallet" THEN JArr(<<JStr(walletName), JStr("p")>>)
  ELSE IF n = "LoadWallet" THEN JArr(<<JStr(walletName)>>)
  ELSE IF n = "RecoverWallet" THEN JArr(<<JStr(walletName), JStr("a b"), JStr("p")>>)
  ELSE IF n = "GetNewAddress" THEN JArr(<<JStr("x")>>)
  ELSE IF n \in {"Send", "Build", "BuildUnsafeTransaction"} THEN BuildArgs
  ELSE IF n = "Broadcast" THEN JArr(<<JStr("0a")>>)
  ELSE IF n = "StartCoinJoin" THEN JArr(<<JStr("p"), JBool(TRUE), JBool(FALSE)>>)
  ELSE IF n = "StartCoinJoinSweep" THEN JArr(<<JStr("p"), JStr("w2")>>)
  ELSE IF n = "ExcludeFromCoinJoin" THEN JArr(<<JStr("ab"), JNum(0), JBool(TRUE)>>)
  ELSE IF n = "PayInCoinJoin" THEN JArr(<<JStr("a"), JNum(1), JStr("p")>>)
  ELSE IF n = "CancelPaymentInCoinJoin" THEN JArr(<<JStr("x")>>)
  ELSE IF n \in {"CancelTransaction", "SpeedUpTransaction"} THEN JArr(<<JStr("ab"), JStr("p")>>)
  ELSE JNull

(***************************************************************************)
(* Go error values: one shape [kind, code, msg, data].                     *)
(***************************************************************************)
Err(kind, code, msg, data) == [kind |-> kind, code |-> code, msg |-> msg, data |-> data]

\* The nil error.
Nil == Err("nil", 0, "", GNil)

\* var RPCErrNullResult = errors.New("result is null")
RPCErrNullResult == Err("errors.New", 0, "result is null", GNil)

E_SERVER == -32000

\* &RPCError{Code, Message, Data}
RPCError(code, msg, data) == Err("*RPCError", code, msg, data)

\* The errors of encoding/json and io.
EOF == Err("io.EOF", 0, "EOF", GNil)
SyntaxError == Err("*json.SyntaxError", 0, "invalid character", GNil)
UnmarshalTypeError == Err("*json.UnmarshalTypeError", 0, "json: cannot unmarshal", GNil)
InvalidUnmarshalError == Err("*json.InvalidUnmarshalError", 0, "json: Unmarshal(nil)", GNil)

\* errors.Is(err, target): none of the errors above wraps another, so the
\* chain of err is err alone.
ErrorsIs(err, target) == err = target

(***************************************************************************)
(* The envelope codec (client.go).                                         *)
(***************************************************************************)
clientResponse ==
  TStruct(<<Field("Version", "jsonrpc", TString),
            Field("Result", "result", TRawPtr),
            Field("Error", "error", TRawPtr)>>)

RPCErrorType ==
  TStruct(<<Field("Code", "code", TInt),
            Field("Message", "message", TString),
            Field("Data", "data", TAny)>>)

\* The field of struct value v with Go name name.
Get(v, name) == v.m[CHOOSE i \in 1..Len(v.m) : v.m[i].k = name].v

\* What the random source gives rand.Int: a failure, or a value.
\* Numbers up to 64 bits wide are four limbs of 16 bits, the most
\* significant first: the number <<a, b, c, d>> is a*2^48 + b*2^32 + c*2^16 + d.
WideLess(a, b) == \E i \in 1..4 : a[i] < b[i] /\ \A j \in 1..(i - 1) : a[j] = b[j]

\* A mutant of MaxInt64: the largest uint64.
MaxInt64_Unsigned == <<65535, 65535, 65535, 65535>>

\* math.MaxInt64 = 2^63 - 1
MaxInt64 == <<32767, 65535, 65535, 65535>>

\* What rand.Int returns: an error, or a number.
RandFailure == [ok |-> FALSE, val |-> <<0, 0, 0, 0>>]
RandValue(n) == [ok |-> TRUE, val |-> n]

\* rand.Int(rand.Reader, max) when the reader offers the numbers in samples:
\* an error, or one of them that is at least 0 and less than max.
RandInt(max, samples) ==
  {RandFailure} \cup {RandValue(n) : n \in {x \in samples : WideLess(x, max)}}

\* A JSON number too wide for the n of a node: its limbs are the members.
JWide(v) == Node("number", "", 0, [i \in 1..4 |-> Member("", JNum(v[i]))])

\* json.Marshal of a clientRequest
clientRequest(method, params, id) ==
  JObj(<<Member("jsonrpc", JStr("2.0")), Member("method", JStr(method)),
         Member("params", params), Member("id", JWide(id))>>)

\* encodeClientRequest(method, args), given what rand.Int returns.  The
\* wrappers pass only strings, numbers, booleans and structs of those, which
\* json.Marshal always serialises.
encodeClientRequest(method, args, rnd) ==
  IF ~rnd.ok
    THEN [payload |-> JNull,
          err |-> Err("*fmt.wrapError", 0, "failed to generate request id", GNil)]
    ELSE [payload |-> clientRequest(method, args, rnd.val), err |-> Nil]

\* An HTTP body: nothing at all, bytes that are no JSON text, or a JSON text.
EmptyBody == [kind |-> "empty", v |-> JNull]
GarbageBody == [kind |-> "garbage", v |-> JNull]
JsonBody(v) == [kind |-> "json", v |-> v]

\* A reply target of do: nil, or a pointer to a value cur of type ty.
NilReply == [isNil |-> TRUE, ty |-> TNone, cur |-> GNil]
ReplyTo(ty) == [isNil |-> FALSE, ty |-> ty, cur |-> Zero(ty)]

\* What decodeClientResponse leaves: the error it returns and the value the
\* reply target then holds.
Reply(err, val) == [err |-> err, val |-> val]

\* A mutant of ErrorOf: the synthesized error has no message and the
\* decoded one the generic code.
ErrorOf_Generic(raw, jsonErr) ==
  IF jsonErr.bad
    THEN RPCError(E_SERVER, "", GNil)
    ELSE RPCError(E_SERVER, Get(jsonErr.val, "Message").s, Get(jsonErr.val, "Data"))

\* The RPC error a decoded error payload gives: the synthesized one when the
\* payload raw did not decode into an RPCError, the decoded one otherwise.
ErrorOf(raw, jsonErr) ==
  IF jsonErr.bad
    THEN RPCError(E_SERVER, Render(raw), GNil)
    ELSE RPCError(Get(jsonErr.val, "Code").n, Get(jsonErr.val, "Message").s,
                  Get(jsonErr.val, "Data"))

\* The text a non-nil *json.RawMessage p points to.
Raw(p) == p.m[1].v

\* A mutant of ResultOf: the error of json.Unmarshal is dropped.
ResultOf_IgnoreMismatch(d) == Reply(Nil, d.val)

\* What json.Unmarshal(*c.Result, reply) gave.
ResultOf(d) == Reply(IF d.bad THEN UnmarshalTypeError ELSE Nil, d.val)

\* A mutant of decodeEnvelope: the result member is looked at before the
\* error member.
decodeEnvelope_ResultFirst(c, reply) ==
  IF c.bad THEN Reply(UnmarshalTypeError, reply.cur)
  ELSE IF Get(c.val, "Result") # GNil /\ ~reply.isNil THEN
    ResultOf(Unmarshal(Raw(Get(c.val, "Result")), reply.ty, reply.cur))
  ELSE IF Get(c.val, "Error") # GNil THEN
    Reply(ErrorOf(Raw(Get(c.val, "Error")),
                  Unmarshal(Raw(Get(c.val, "Error")), RPCErrorType, Zero(RPCErrorType))),
          reply.cur)
  ELSE Reply(RPCErrNullResult, reply.cur)

\* decodeClientResponse after the envelope was decoded into c (lines 377 to 392).
decodeEnvelope(c, reply) ==
  IF c.bad THEN Reply(UnmarshalTypeError, reply.cur)
  ELSE IF Get(c.val, "Error") # GNil THEN
    Reply(ErrorOf(Raw(Get(c.val, "Error")),
                  Unmarshal(Raw(Get(c.val, "Error")), RPCErrorType, Zero(RPCErrorType))),
          reply.cur)
  ELSE IF Get(c.val, "Result") = GNil THEN Reply(RPCErrNullResult, reply.cur)
  ELSE IF reply.isNil THEN Reply(InvalidUnmarshalError, reply.cur)
  ELSE ResultOf(Unmarshal(Raw(Get(c.val, "Result")), reply.ty, reply.cur))

\* A mutant of decodeClientResponse: the error of Decode is dropped and
\* the envelope is used as Decode left it.
decodeClientResponse_IgnoreDecodeError(r, reply) ==
  IF r.kind \in {"empty", "garbage"} THEN Reply(RPCErrNullResult, reply.cur)
  ELSE decodeEnvelope(Decoded(Unmarshal(r.v, clientResponse, Zero(clientResponse)).val, FALSE),
                      reply)

\* decodeClientResponse(r, reply)
decodeClientResponse(r, reply) ==
  IF r.kind = "empty" THEN Reply(EOF, reply.cur)
  ELSE IF r.kind = "garbage" THEN Reply(SyntaxError, reply.cur)
  ELSE decodeEnvelope(Unmarshal(r.v, clientResponse, Zero(clientResponse)), reply)

(***************************************************************************)
(* The HTTP request of do (client.go, lines 137 to 146).                   *)
(***************************************************************************)
\* fmt.Sprintf("http://%s:%d/%s", host, port, targetWalletName)
SprintfURL(host, port, targetWalletName) ==
  "http://" \o host \o ":" \o ToString(port) \o "/" \o targetWalletName

IsHex(c) == IndexOf("0123456789abcdefABCDEF", c) > 0

\* Whether s holds a '%' that does not start a %XX escape.
BadEscape(s) ==
  \E i \in 1..Len(s) :
    /\ Ch(s, i) = "%"
    /\ ~(i + 2 <= Len(s) /\ IsHex(Ch(s, i + 1)) /\ IsHex(Ch(s, i + 2)))

\* Whether url.Parse, which http.NewRequest calls, accepts the text u of an
\* http URL: the authority (up to the first '/') must hold no space and no
\* bad escape, the path no bad escape.  (The model's strings hold no control
\* character, '?' or '#'.)
URLParses(u) ==
  LET rest == SubSeq(u, Len("http://") + 1, Len(u))
      slash == IndexOf(rest, "/")
      authority == IF slash = 0 THEN rest ELSE SubSeq(rest, 1, slash - 1)
      path == IF slash = 0 THEN "" ELSE SubSeq(rest, slash, Len(rest))
  IN ~ContainsAny(authority, " ") /\ ~BadEscape(authority) /\ ~BadEscape(path)

\* textproto.CanonicalMIMEHeaderKey, which http.Header.Set applies to the
\* key: a key with a space is left as it is; otherwise the first letter and
\* every letter after a '-' is made upper case and the others lower case.
RECURSIVE Canonical(_, _)
Canonical(s, i) ==
  IF i > Len(s) THEN ""
  ELSE (IF i = 1 \/ Ch(s, i - 1) = "-" THEN ToUpperCh(Ch(s, i)) ELSE ToLowerCh(Ch(s, i)))
         \o Canonical(s, i + 1)
CanonicalMIMEHeaderKey(s) == IF ContainsAny(s, " ") THEN s ELSE Canonical(s, 1)

\* A mutant of HeaderOutcomes: no header is set.
HeaderOutcomes_None(m) == {{}}

\* The headers a request can end up with after
\*   for k, v := range headers { req.Header.Set(k, v) }
\* as sets of <<key, value>> pairs: when two keys of the map have the same
\* canonical form, the one the range meets last wins, and the order of a
\* range over a map is unspecified.
HeaderOutcomes(m) ==
  LET all == {<<CanonicalMIMEHeaderKey(kv[1]), kv[2]>> : kv \in m} IN
  {h \in SUBSET all :
     /\ MapKeys(h) = MapKeys(all)
     /\ \A a \in h : \A b \in h : a[1] = b[1] => a = b}

NoRequest == [URL |-> "", Header |-> {}, Body |-> JNull]
Request(url, header, body) == [URL |-> url, Header |-> header, Body |-> body]

(***************************************************************************)
(* What httpClient.Do returns: an error, or a response with a status code  *)
(* and a body.                                                             *)
(***************************************************************************)
StatusOK == 200

TransportFailure == [ok |-> FALSE, StatusCode |-> 0, Body |-> EmptyBody]
Response(status, body) == [ok |-> TRUE, StatusCode |-> status, Body |-> body]
NoResponse == [ok |-> FALSE, StatusCode |-> -1, Body |-> EmptyBody]

TransportError == Err("*url.Error", 0, "connection refused", GNil)

\* fmt.Errorf("http status %v", resp.StatusCode)
StatusError(status) == Err("fmt.Errorf", status, "http status " \o ToString(status), GNil)

\* The part of do before the mutex (lines 131 to 146) for client cl, method
\* m and walletName w, given what rand.Int returns: the error do returns at
\* once, or the request it goes on with (one for each order in which the
\* range over the headers can run).
Prepared(err, req) == [err |-> err, req |-> req]
URLError == Err("*url.Error", 0, "parse", GNil)
doBuild(enc, url, headers) ==
  IF enc.err # Nil THEN {Prepared(enc.err, NoRequest)}
  ELSE IF ~URLParses(url) THEN {Prepared(URLError, NoRequest)}
  ELSE {Prepared(Nil, Request(url, h, enc.payload)) : h \in HeaderOutcomes(headers)}
doRequest(cl, hp, m, w, rnd) ==
  doBuild(encodeClientRequest(MethodTable[m].wire, Params(m, w), rnd),
          SprintfURL(cl.host, cl.port, Segment(m, w)),
          IF cl.headers = NilMap THEN {} ELSE hp[cl.headers])

\* A mutant of WithoutWaiter: the goroutine stays among the blocked ones.
WithoutWaiter_Kept(q, g) == q

\* The blocked goroutines q without g, which has the mutex now.
WithoutWaiter(q, g) == SelectSeq(q, LAMBDA x : x # g)

\* fmt.Sprintf("%s:%d", c.host, c.port), the address IsWasabiWalletUp dials
DialAddr(cl) == cl.host \o ":" \o ToString(cl.port)

\* err == nil after net.Dial: there is a connection.
Dialed(conn) == conn # "none"

\* A mutant of AfterClose: the connection is left open.
AfterClose_Leak(conn) == conn

\* conn.Close()
AfterClose(conn) == "closed"

\* A mutant of AfterUnlock: the mutex stays with its holder.
AfterUnlock_Held(holder) == holder

\* The deferred c.mutex.Unlock(): no goroutine holds the mutex.
AfterUnlock(holder) == 0

\* A mutant of MutexOf: one mutex for all clients.
MutexOf_Shared(c) == 1

\* The mutex a call on client c locks: the client's own field (client.go,
\* line 127), made with the client by NewClient.
MutexOf(c) == c

\* A mutant of MutexIsFree: Lock never waits.
MutexIsFree_Always(holder) == TRUE

\* c.mutex.Lock() returns only when no goroutine holds the mutex.
MutexIsFree(holder) == holder = 0

\* err != nil && !errors.Is(err, RPCErrNullResult), the test of line 162
IsFatal(err) == err # Nil /\ ~ErrorsIs(err, RPCErrNullResult)

\* A mutant of StatusIsNotOK: the status is not looked at.
StatusIsNotOK_Never(status) == FALSE

\* resp.StatusCode != http.StatusOK, the test of line 156
StatusIsNotOK(status) == status # StatusOK

\* What do leaves when it returns err without decoding a body.
Failed(err, out) == [err |-> err, val |-> out.cur, decoded |-> FALSE, closed |-> FALSE]

\* What do returns when decodeClientResponse left d (lines 162 to 165).
Decided(d) ==
  [err |-> IF IsFatal(d.err) THEN d.err ELSE Nil, val |-> d.val,
   decoded |-> TRUE, closed |-> TRUE]

\* The part of do that follows httpClient.Do (lines 152 to 165), for what
\* Do returned and the reply target out: the error do returns, the value out
\* then holds, whether the body was decoded and whether the deferred
\* resp.Body.Close() was registered (and so runs when do returns).
doResponse(r, out) ==
  IF ~r.ok THEN Failed(TransportError, out)
  ELSE IF StatusIsNotOK(r.StatusCode) THEN Failed(StatusError(r.StatusCode), out)
  ELSE Decided(decodeClientResponse(r.Body, out))

\* The reply target the wrapper of method m passes to do: &resp, or nil.
Out(m) == IF MethodTable[m].payload THEN ReplyTo(MethodTable[m].ty) ELSE NilReply

\* What the wrapper of method m returns to its caller when do returned err
\* and left val in resp: a payload method returns its zero value with a
\* non-nil err and resp otherwise; a method without payload returns err.
WrapperReturn(m, d) ==
  IF ~MethodTable[m].payload THEN [val |-> GNil, err |-> d.err]
  ELSE IF d.err # Nil THEN [val |-> Zero(MethodTable[m].ty), err |-> d.err]
  ELSE [val |-> d.val, err |-> Nil]

(***************************************************************************)
(* State.                                                                  *)
(***************************************************************************)
VARIABLES
  heap,      \* heap[m]: the contents of map m
  cfg,       \* cfg[c]: the Config value the caller passed to NewClient for c
  client,    \* client[c]: the client struct (host, port, headers), or its absence
  mutex,     \* mutex[c]: the goroutine that holds c.mutex, 0 when it is free
  waiters,   \* waiters[c]: the goroutines blocked in c.mutex.Lock(), in the order of their calls
  inflight,  \* inflight[c]: requests of c the transport is serving
  gs         \* gs[g]: what goroutine g is doing

vars == <<heap, cfg, client, mutex, waiters, inflight, gs>>

NoConfig == MkConfig("", 0, NilMap, "", "")
NoClient == [state |-> "none", host |-> "", port |-> 0, headers |-> NilMap, err |-> NoError]
NoReturn == [val |-> GNil, err |-> Nil]

\* A goroutine outside any call.
Idle ==
  [pc |-> "idle", c |-> 0, m |-> 0, wallet |-> "", rnd |-> RandFailure, req |-> NoRequest,
   posts |-> 0, resp |-> NoResponse, decoded |-> FALSE, bodyOpen |-> FALSE,
   addr |-> "", conn |-> "none", ret |-> NoReturn]

Init ==
  /\ heap = [c \in Clients |-> {}]
  /\ cfg = [c \in Clients |-> NoConfig]
  /\ client = [c \in Clients |-> NoClient]
  /\ mutex = [c \in Clients |-> 0]
  /\ waiters = [c \in Clients |-> <<>>]
  /\ inflight = [c \in Clients |-> 0]
  /\ gs = [g \in Goroutines |-> Idle]

(***************************************************************************)
(* Actions.                                                                *)
(***************************************************************************)
\* What a caller puts in a Config: in.headers is the contents of the map it
\* makes for CustomHeaders, unless in.nilHeaders.
CallerConfig(host, port, nilHeaders, headers, user, password) ==
  [Host |-> host, Port |-> port, nilHeaders |-> nilHeaders, headers |-> headers,
   RpcUser |-> user, RpcPassword |-> password]

\* NewClient(cfg) for client c.  cfg is passed by value, so Validate works
\* on NewClient's copy; the copy shares the caller's map.
NewClient(c, in) ==
  /\ client[c].state = "none"
  /\ LET callerMap == IF in.nilHeaders THEN NilMap ELSE c
         heap0 == IF in.nilHeaders THEN heap ELSE [heap EXCEPT ![c] = in.headers]
         callerCfg == MkConfig(in.Host, in.Port, callerMap, in.RpcUser, in.RpcPassword)
     IN \E o \in Validate(callerCfg, heap0, c) :
          /\ cfg' = [cfg EXCEPT ![c] = callerCfg]
          /\ heap' = o.heap
          /\ client' = [client EXCEPT ![c] =
               IF o.err # NoError
                 THEN [state |-> "failed", host |-> "", port |-> 0, headers |-> NilMap,
                       err |-> "invalid config: " \o o.err]
                 ELSE [state |-> "ok", host |-> o.cfg.Host, port |-> o.cfg.Port,
                       headers |-> o.cfg.CustomHeaders, err |-> NoError]]
  /\ UNCHANGED <<mutex, waiters, inflight, gs>>

\* Goroutine g calls the wrapper of method m on client c with walletName w:
\* do runs up to the mutex (lines 131 to 146).
Call(g, c, m, w, rnd) ==
  /\ gs[g].pc = "idle"
  /\ client[c].state = "ok"
  /\ \E d \in doRequest(client[c], heap, m, w, rnd) :
       gs' = [gs EXCEPT ![g] =
                [Idle EXCEPT !.c = c, !.m = m, !.wallet = w, !.rnd = rnd, !.req = d.req,
                             !.pc = IF d.err # Nil THEN "done" ELSE "lock",
                             !.ret = IF d.err # Nil THEN WrapperReturn(m, Failed(d.err, Out(m)))
                                     ELSE NoReturn]]
  /\ UNCHANGED <<heap, cfg, client, mutex, waiters, inflight>>

\* c.mutex.Lock(): a call made while the mutex is held blocks; a call made
\* while it is free takes it at once, and a blocked call takes it at some
\* moment when it is free.  sync.Mutex fixes no order among the blocked
\* calls, and a call that finds the mutex free does not queue behind them.
Lock(g) ==
  /\ gs[g].pc \in {"lock", "blocked"}
  /\ IF gs[g].pc = "lock" /\ ~MutexIsFree(mutex[MutexOf(gs[g].c)])
       THEN /\ gs' = [gs EXCEPT ![g].pc = "blocked"]
            /\ waiters' = [waiters EXCEPT ![MutexOf(gs[g].c)] = Append(@, g)]
            /\ UNCHANGED mutex
       ELSE /\ MutexIsFree(mutex[MutexOf(gs[g].c)])
            /\ mutex' = [mutex EXCEPT ![MutexOf(gs[g].c)] = g]
            /\ gs' = [gs EXCEPT ![g].pc = "do"]
            /\ waiters' = [waiters EXCEPT ![MutexOf(gs[g].c)] = WithoutWaiter(@, g)]
  /\ UNCHANGED <<heap, cfg, client, inflight>>

\* c.httpClient.Do(req) starts: the transport has the request.
DoSend(g) ==
  /\ gs[g].pc = "do"
  /\ inflight' = [inflight EXCEPT ![gs[g].c] = @ + 1]
  /\ gs' = [gs EXCEPT ![g].pc = "wait", ![g].posts = @ + 1]
  /\ UNCHANGED <<heap, cfg, client, mutex, waiters>>

\* c.httpClient.Do(req) returns r.  On an error do returns at once (the
\* deferred Unlock runs); otherwise do goes on with the response.
DoReturn(g, r) ==
  /\ gs[g].pc = "wait"
  /\ IF r.ok
       THEN /\ gs' = [gs EXCEPT ![g].pc = "resp", ![g].resp = r, ![g].bodyOpen = TRUE]
            /\ UNCHANGED <<mutex, inflight>>
       ELSE /\ gs' = [gs EXCEPT ![g].pc = "done", ![g].resp = r,
                        ![g].ret = WrapperReturn(gs[g].m, doResponse(r, Out(gs[g].m)))]
            /\ mutex' = [mutex EXCEPT ![MutexOf(gs[g].c)] = AfterUnlock(@)]
            /\ inflight' = [inflight EXCEPT ![gs[g].c] = @ - 1]
  /\ UNCHANGED <<heap, cfg, client, waiters>>

\* The rest of do (status check, decoding, the deferred Close and Unlock)
\* and the wrapper's return.
Finish(g) ==
  /\ gs[g].pc = "resp"
  /\ \E d \in {doResponse(gs[g].resp, Out(gs[g].m))} :
       gs' = [gs EXCEPT ![g].pc = "done", ![g].decoded = d.decoded,
                ![g].bodyOpen = ~d.closed,
                ![g].ret = WrapperReturn(gs[g].m, d)]
  /\ mutex' = [mutex EXCEPT ![MutexOf(gs[g].c)] = AfterUnlock(@)]
  /\ inflight' = [inflight EXCEPT ![gs[g].c] = @ - 1]
  /\ UNCHANGED <<heap, cfg, client, waiters>>

\* Goroutine g calls IsWasabiWalletUp on client c: net.Dial to the
\* client's address succeeds (up) or fails.
IsWasabiWalletUp(g, c, up) ==
  /\ gs[g].pc = "idle"
  /\ client[c].state = "ok"
  /\ gs' = [gs EXCEPT ![g] = [Idle EXCEPT !.c = c, !.pc = "probe",
                                          !.addr = DialAddr(client[c]),
                                          !.conn = IF up THEN "open" ELSE "none"]]
  /\ UNCHANGED <<heap, cfg, client, mutex, waiters, inflight>>

\* IsWasabiWalletUp returns: false after a failed Dial, and true, with the
\* deferred conn.Close() run, after a successful one.
IsWasabiWalletUpReturn(g) ==
  /\ gs[g].pc = "probe"
  /\ gs' = [gs EXCEPT ![g].pc = "probed",
                      ![g].conn = IF Dialed(gs[g].conn) THEN AfterClose(@) ELSE @,
                      ![g].ret = [val |-> GBool(Dialed(gs[g].conn)), err |-> Nil]]
  /\ UNCHANGED <<heap, cfg, client, mutex, waiters, inflight>>

\* The caller of NewClient, which still has the Config it passed for client
\* c, sets an entry of that Config's CustomHeaders map: cfg.CustomHeaders[k] = v.
CallerSetsHeader(c, k, v) ==
  /\ client[c].state # "none"
  /\ cfg[c].CustomHeaders # NilMap
  /\ heap' = [heap EXCEPT ![cfg[c].CustomHeaders] = MapSet(@, k, v)]
  /\ UNCHANGED <<cfg, client, mutex, waiters, inflight, gs>>

\* The caller has the wrapper's result and may call again.
Return(g) ==
  /\ gs[g].pc \in {"done", "probed"}
  /\ gs' = [gs EXCEPT ![g] = Idle]
  /\ UNCHANGED <<heap, cfg, client, mutex, waiters, inflight>>

(***************************************************************************)
(* The inputs of the model: the Configs callers construct clients from,    *)
(* the calls they make and what the daemon's side answers.                 *)
(***************************************************************************)
Hosts == {"", "127.0.0.1", "h:1", "a/b", "h h"}
Ports == {-1, 0, 1, 65535, 65536}
Users == {"", "u"}
Passwords == {"", "pw"}
HeaderMaps ==
  { {}, {<<"X-Api", "k">>}, {<<"Authorization", "x">>}, {<<"", "k">>},
    {<<"X-Api", "">>}, {<<"x-api", "a">>, <<"X-Api", "b">>} }

AllConfigs ==
  {CallerConfig(h, p, TRUE, {}, u, pw) :
     h \in Hosts, p \in Ports, u \in Users, pw \in Passwords}
  \cup {CallerConfig(h, p, FALSE, hm, u, pw) :
     h \in Hosts, p \in Ports, hm \in HeaderMaps, u \in Users, pw \in Passwords}

\* Two valid Configs: the defaults, and credentials on an explicit port.
PlainConfig == CallerConfig("127.0.0.1", 0, TRUE, {}, "", "")
AuthConfig == CallerConfig("127.0.0.1", 1, TRUE, {}, "u", "pw")

Wallets == {"", "w", "%"}
\* What the random source may offer: 0, 7, 2^63 - 2, 2^63 - 1, 2^63 and
\* 2^64 - 1; rand.Int is called with math.MaxInt64 as its bound.
RandSamples ==
  {<<0, 0, 0, 0>>, <<0, 0, 0, 7>>, <<32767, 65535, 65535, 65534>>,
   <<32767, 65535, 65535, 65535>>, <<32768, 0, 0, 0>>, <<65535, 65535, 65535, 65535>>}
Rands == RandInt(MaxInt64, RandSamples)

\* A response envelope with the given result and error members (absent
\* when the argument is the empty sequence).
Envelope(result, error) ==
  JsonBody(JObj(<<Member("jsonrpc", JStr("2.0"))>>
                  \o [i \in 1..Len(result) |-> Member("result", result[i])]
                  \o [i \in 1..Len(error) |-> Member("error", error[i])]
                  \o <<Member("id", JNum(7))>>))

StatusJSON ==
  JObj(<<Member("torStatus", JStr("Running")), Member("backendStatus", JStr("Connected")),
         Member("bestBlockchainHeight", JStr("800000")), Member("filtersCount", JNum(3))>>)
\* filtersCount has the wrong type; the members around it decode.
BadStatusJSON ==
  JObj(<<Member("torStatus", JStr("Running")), Member("filtersCount", JStr("three")),
         Member("backendStatus", JStr("Connected"))>>)
CoinsJSON ==
  JArr(<<JObj(<<Member("txid", JStr("ab")), Member("index", JNum(1)),
                Member("spentBy", JNull)>>)>>)

\* The result member: absent, null, or a value.
ResultMembers ==
  {<<>>, <<JNull>>, <<JStr("abc")>>, <<JNum(5)>>, <<JBool(TRUE)>>, <<StatusJSON>>,
   <<BadStatusJSON>>, <<CoinsJSON>>, <<JArr(<<>>)>>, <<JObj(<<>>)>>}

StructuredError ==
  JObj(<<Member("code", JNum(-32601)), Member("message", JStr("no method")),
         Member("data", JStr("d"))>>)
\* The error member: absent, null, a structured error (with and without
\* data, with no member at all, with keys in another case), and payloads
\* that do not decode into RPCError.
ErrorMembers ==
  {<<>>, <<JNull>>, <<StructuredError>>,
   <<JObj(<<Member("code", JNum(5)), Member("message", JStr("m"))>>)>>,
   <<JObj(<<>>)>>,
   <<JObj(<<Member("Code", JNum(9)), Member("MESSAGE", JStr("m"))>>)>>,
   <<JStr("boom")>>, <<JNum(5)>>, <<JArr(<<>>)>>,
   <<JObj(<<Member("code", JStr("x")), Member("message", JStr("m"))>>)>>,
   <<JObj(<<Member("code", JNum(1)), Member("message", JNum(2))>>)>>}

\* Values of the result types, for a server that answers with the encoding
\* of a value it holds.  With(v, name, x) is struct v with field name set.
With(v, name, x) ==
  [v EXCEPT !.m[CHOOSE i \in 1..Len(v.m) : v.m[i].k = name].v = x]
Typed(ty, val) == [ty |-> ty, val |-> val]
PeerValue ==
  With(With(With(Zero(BitcoinPeer), "IsConnected", GBool(TRUE)),
            "LastSeen", GTime("2024-01-02T03:04:05Z")), "Endpoint", GString("h:8333"))
StatusValue ==
  With(With(With(With(With(Zero(GetStatusResponse), "TorStatus", GString("Running")),
                      "BestBlockchainHeight", GInt(800000)),
                 "FiltersCount", GInt(3)),
            "ExchangeRate", GFloat(JFloat("64000.5"))),
       "Peers", GSlice(<<Member("", PeerValue), Member("", Zero(BitcoinPeer))>>))
SpentCoinValue ==
  With(With(With(Zero(ListCoinsResponse), "TxID", GString("ab")),
            "SpentBy", GPtr(GString("cd"))), "Label", GString("l"))
\* SpentBy points to an empty string: not nil, so omitempty keeps it.
OddCoinValue ==
  With(With(Zero(ListCoinsResponse), "Confirmed", GBool(TRUE)), "SpentBy", GPtr(GString("")))
PaymentValue ==
  With(With(Zero(ListPaymentsInCoinJoinResponseItem), "ID", GString("u")),
       "State",
       GSlice(<<Member("", With(Zero(PaymentInCoinJoinStateHistoryItem),
                                "Status", GString("Pending"))),
                Member("", With(With(With(Zero(PaymentInCoinJoinStateHistoryItem),
                                          "Status", GString("Finished")),
                                     "Round", GInt(3)), "TxID", GString("ab")))>>))
RoundTripValues ==
  {Typed(TString, GString("")), Typed(TString, GString("0a")),
   Typed(GetStatusResponse, Zero(GetStatusResponse)),
   Typed(GetStatusResponse, StatusValue),
   Typed(GetStatusResponse, With(Zero(GetStatusResponse), "Peers", GSlice(<<>>))),
   Typed(TSlice(ListCoinsResponse), GNil),
   Typed(TSlice(ListCoinsResponse), GSlice(<<>>)),
   Typed(TSlice(ListCoinsResponse),
         GSlice(<<Member("", Zero(ListCoinsResponse)), Member("", SpentCoinValue),
                  Member("", OddCoinValue)>>)),
   Typed(GetWalletInfoResponse, Zero(GetWalletInfoResponse)),
   Typed(GetWalletInfoResponse,
         With(With(Zero(GetWalletInfoResponse), "Balance", GInt(5)),
              "Accounts", GSlice(<<Member("", Zero(WalletInfoAccount))>>))),
   Typed(SendResponse, With(Zero(SendResponse), "Transaction", GString("0a"))),
   Typed(TSlice(Transaction),
         GSlice(<<Member("", With(Zero(Transaction), "DateTime",
                                  GTime("2024-01-02T03:04:05Z")))>>)),
   Typed(GetFeeRatesResponse, GNil),
   Typed(GetFeeRatesResponse, GMap(<<>>)),
   Typed(GetFeeRatesResponse, GMap(<<Member("2", GInt(10)), Member("6", GInt(5))>>)),
   Typed(TSlice(ListWalletsResponseItem),
         GSlice(<<Member("", With(Zero(ListWalletsResponseItem), "Name", GString("w")))>>)),
   Typed(TSlice(ListPaymentsInCoinJoinResponseItem), GSlice(<<Member("", PaymentValue)>>))}
\* The answer of a server that holds x: its encoding as the result, no
\* error member.
Encoded(x) == Envelope(<<Marshal(x.val, x.ty)>>, <<>>)

\* Bodies that are no response envelope: nothing, no JSON, JSON that is no
\* object, and an object whose jsonrpc member is no string.
BrokenBodies ==
  {EmptyBody, GarbageBody, JsonBody(JArr(<<>>)), JsonBody(JStr("x")), JsonBody(JNum(1)),
   JsonBody(JObj(<<Member("jsonrpc", JNum(2)), Member("error", StructuredError)>>)),
   JsonBody(JObj(<<Member("jsonrpc", JNum(2)), Member("result", JStr("abc"))>>))}

Bodies ==
  {Envelope(r, e) : r \in ResultMembers, e \in ErrorMembers}
    \cup BrokenBodies \cup {JsonBody(JNull), JsonBody(JObj(<<>>))}
    \cup {Encoded(x) : x \in RoundTripValues}

AllResponses ==
  {TransportFailure}
    \cup {Response(StatusOK, b) : b \in Bodies}
    \cup {Response(500, b) : b \in {EmptyBody, Envelope(<<JStr("abc")>>, <<>>)}}

\* The answers of the concurrent specification.
FewResponses ==
  {TransportFailure, Response(500, EmptyBody),
   Response(StatusOK, Envelope(<<JNull>>, <<>>)),
   Response(StatusOK, Envelope(<<>>, <<StructuredError>>))}

(***************************************************************************)
(* Specifications.                                                         *)
(***************************************************************************)
\* The steps of goroutines G on clients C, with the inputs drawn from the
\* given sets.
Step(G, C, configs, methods, wallets, rands, responses) ==
  \/ \E c \in C, in \in configs : NewClient(c, in)
  \/ \E g \in G, c \in C, m \in methods, w \in wallets, rnd \in rands : Call(g, c, m, w, rnd)
  \/ \E g \in G : Lock(g)
  \/ \E g \in G : DoSend(g)
  \/ \E g \in G, r \in responses : DoReturn(g, r)
  \/ \E g \in G : Finish(g)
  \/ \E g \in G, c \in C, up \in BOOLEAN : IsWasabiWalletUp(g, c, up)
  \/ \E g \in G : IsWasabiWalletUpReturn(g)
  \/ \E g \in G : Return(g)

\* Several goroutines calling methods of the clients concurrently.
Next ==
  Step(Goroutines, Clients, {PlainConfig, AuthConfig}, {M("GetStatus"), M("Stop")},
       {"w"}, {RandValue(<<0, 0, 0, 7>>)}, FewResponses)
Spec == Init /\ [][Next]_vars

\* One goroutine calling every method of one client, with every answer.
NextCodec ==
  Step({1}, {1}, {AuthConfig}, Methods, Wallets, Rands, AllResponses)
SpecCodec == Init /\ [][NextCodec]_vars

\* One goroutine calling a client constructed from any Config.
NextConfig ==
  Step({1}, {1}, AllConfigs, {M("GetStatus"), M("ListCoins")}, {"w"}, {RandValue(<<0, 0, 0, 7>>)},
       {Response(StatusOK, Envelope(<<JNull>>, <<>>))})
SpecConfig == Init /\ [][NextConfig]_vars

\* One goroutine calling a client whose caller keeps the Config it passed
\* to NewClient and goes on writing to its CustomHeaders map.
AliasConfigs ==
  {CallerConfig("127.0.0.1", p, nilHeaders, IF nilHeaders THEN {} ELSE {<<"X-Api", "k">>},
                up[1], up[2]) :
     p \in {0, 1}, nilHeaders \in BOOLEAN, up \in {<<"", "">>, <<"u", "pw">>}}
NextAlias ==
  \/ Step({1}, {1}, AliasConfigs, {M("GetStatus")}, {"w"}, {RandValue(<<0, 0, 0, 7>>)},
          {Response(StatusOK, Envelope(<<JNull>>, <<>>))})
  \/ \E k \in {"X-Api", "X-New", "Authorization"}, v \in {"k", "z"} :
       CallerSetsHeader(1, k, v)
SpecAlias == Init /\ [][NextAlias]_vars

(***************************************************************************)
(* Properties.  The definitions below describe responses by the JSON text  *)
(* of the body alone, without going through the decoder.                   *)
(***************************************************************************)
\* The members of JSON object o that decode into the struct field with JSON
\* key `key` (encoding/json matches keys case-insensitively).
MembersNamed(o, key) == {i \in 1..Len(o.m) : EqualFold(o.m[i].k, key)}

\* The value the field with key `key` ends up with: that of the last such
\* member, null when there is none.
MemberValue(o, key) ==
  IF MembersNamed(o, key) = {} THEN JNull
  ELSE o.m[CHOOSE i \in MembersNamed(o, key) : \A j \in MembersNamed(o, key) : j <= i].v

\* Body b is a JSON object whose jsonrpc member, if any, is a string.
IsEnvelope(b) ==
  /\ b.kind = "json"
  /\ b.v.t = "object"
  /\ \A i \in MembersNamed(b.v, "jsonrpc") : b.v.m[i].v.t \in {"string", "null"}

\* Body b is a JSON object with a non-null error member.
HasError(b) == b.kind = "json" /\ b.v.t = "object" /\ MemberValue(b.v, "error").t # "null"

\* Body b is a JSON object with a non-null result member.
HasResult(b) == b.kind = "json" /\ b.v.t = "object" /\ MemberValue(b.v, "result").t # "null"

\* Goroutine g's call has returned after the daemon answered with status 200.
AnsweredOK(g) == gs[g].pc = "done" /\ gs[g].resp.ok /\ gs[g].resp.StatusCode = 200

\* The zero value of what the wrapper of method m returns beside the error.
ZeroOf(m) == IF MethodTable[m].payload THEN Zero(MethodTable[m].ty) ELSE GNil

\* The goroutines whose request is with the transport of client c: sent and
\* not yet returned from do.
InFlight(c) == {g \in Goroutines : gs[g].c = c /\ gs[g].pc \in {"wait", "resp"}}

\* C1: at every moment at most one HTTP request of a client is in flight,
\* however many goroutines call its methods concurrently.
C1_OneInFlight ==
  \A c \in Clients : inflight[c] <= 1 /\ Cardinality(InFlight(c)) = inflight[c]

\* C1's case: a request of a client is in flight while another goroutine
\* has called a method of the same client and waits for the mutex.
C1_Witness ==
  \E c \in Clients : \E g \in Goroutines : \E h \in Goroutines :
    /\ g # h
    /\ gs[g].c = c /\ gs[g].pc = "wait"
    /\ gs[h].c = c /\ gs[h].pc = "lock"

C3_NullResult ==
  \A g \in Goroutines :
    /\ AnsweredOK(g)
    /\ IsEnvelope(gs[g].resp.Body)
    /\ ~HasError(gs[g].resp.Body)
    /\ ~HasResult(gs[g].resp.Body)
    => /\ decodeClientResponse(gs[g].resp.Body, Out(gs[g].m)).err = RPCErrNullResult
       /\ MethodTable[gs[g].m].payload <=> gs[g].ret.err # Nil

\* NewClient was called for client c.
Constructed(c) == client[c].state # "none"

\* The CustomHeaders map of the Config that NewClient was given for c.
GivenHeaders(c) == IF cfg[c].CustomHeaders = NilMap THEN {} ELSE heap[cfg[c].CustomHeaders]

\* The Config that NewClient was given for c has both credentials.
HasCredentials(c) == cfg[c].RpcUser # "" /\ cfg[c].RpcPassword # ""

\* Goroutine g's call has built its HTTP request.
HasRequest(g) == gs[g].pc \in {"lock", "blocked", "do", "wait", "resp", "done"} /\ gs[g].req # NoRequest

\* C4: for every Config, whatever its port, NewClient returns an error if
\* the host contains ':' or '/', if exactly one of RpcUser and RpcPassword
\* is non-empty, or if CustomHeaders has the key "Authorization".
C4_Rejects ==
  \A c \in Clients :
    /\ Constructed(c)
    /\ \/ \E i \in 1..Len(cfg[c].Host) : Ch(cfg[c].Host, i) \in {":", "/"}
       \/ (cfg[c].RpcUser = "") # (cfg[c].RpcPassword = "")
       \/ "Authorization" \in MapKeys(GivenHeaders(c))
    => client[c].state = "failed"

\* C5: every request of a client constructed from a valid Config with both
\* credentials carries Authorization: Basic base64(user:password), for every
\* valid port (0 too) and with or without custom headers.
C5_BasicAuth ==
  \A g \in Goroutines :
    HasRequest(g) /\ HasCredentials(gs[g].c) =>
      <<"Authorization",
        "Basic " \o EncodeToString(Bytes(cfg[gs[g].c].RpcUser \o ":" \o cfg[gs[g].c].RpcPassword))>>
        \in gs[g].req.Header

\* The port a client constructed with port p is to use.
PortFor(p) == IF p = 0 THEN 37128 ELSE p

\* C6: Port 0 gives a client with port 37128 whose requests go to
\* http://{host}:37128/...; a port in 1..65535 is kept; a port below 0 or
\* above 65535 makes NewClient fail.
C6_Port ==
  /\ \A c \in Clients :
       Constructed(c) =>
         /\ cfg[c].Port < 0 \/ cfg[c].Port > 65535 => client[c].state = "failed"
         /\ client[c].state = "ok" =>
              /\ cfg[c].Port \in 0..65535
              /\ client[c].port = PortFor(cfg[c].Port)
              /\ client[c].port \in 1..65535
  /\ \A g \in Goroutines :
       HasRequest(g) =>
         gs[g].req.URL =
           "http://" \o cfg[gs[g].c].Host \o ":" \o ToString(PortFor(cfg[gs[g].c].Port))
             \o "/" \o (IF gs[g].m = M("ListCoins") THEN gs[g].wallet ELSE "")

\* C6's case: a client constructed with port 0 has sent ListCoins for wallet
\* "w" to the default port.
C6_Witness ==
  \E g \in Goroutines :
    /\ gs[g].pc = "wait"
    /\ cfg[gs[g].c].Port = 0
    /\ client[gs[g].c].port = 37128
    /\ gs[g].req.URL = "http://127.0.0.1:37128/w"

PathRejected(g) == MethodTable[gs[g].m].scoped /\ BadEscape(gs[g].wallet)

LastNonNull(o, key) ==
  LET S == {i \in MembersNamed(o, key) : o.m[i].v.t # "null"} IN
  IF S = {} THEN JNull ELSE o.m[CHOOSE i \in S : \A j \in S : j <= i].v

\* JSON text p has the shape of an RPCError: an object whose code members
\* are integers and whose message members are strings (or null).
ErrorShaped(p) ==
  /\ p.t = "object"
  /\ \A i \in MembersNamed(p, "code") : p.m[i].v.t \in {"number", "null"}
  /\ \A i \in MembersNamed(p, "message") : p.m[i].v.t \in {"string", "null"}

\* C8: when the error member decodes into the RPC error shape, the returned
\* error carries its code, message and data; when it does not, the returned
\* error is an RPC error with code -32000 whose message is the raw text of
\* the error payload.
C8_ErrorMapping ==
  \A g \in Goroutines :
    AnsweredOK(g) /\ IsEnvelope(gs[g].resp.Body) /\ HasError(gs[g].resp.Body) =>
      \E p \in {MemberValue(gs[g].resp.Body.v, "error")} :
        IF ErrorShaped(p)
          THEN gs[g].ret.err =
                 RPCError(LastNonNull(p, "code").n, LastNonNull(p, "message").s,
                          Unmarshal(MemberValue(p, "data"), TAny, GNil).val)
          ELSE gs[g].ret.err = RPCError(-32000, Render(p), GNil)

\* C8's case: the error member is an object whose code is a string; the
\* call returned code -32000 with the payload's text as the message.
C8_Witness ==
  \E g \in Goroutines :
    /\ AnsweredOK(g)
    /\ HasError(gs[g].resp.Body)
    /\ MemberValue(gs[g].resp.Body.v, "error") =
         JObj(<<Member("code", JStr("x")), Member("message", JStr("m"))>>)
    /\ gs[g].ret.err = RPCError(-32000, "{\"code\":\"x\",\"message\":\"m\"}", GNil)

\* JSON text v has the shape of Go type ty: null fits every type, a member
\* of an object that names no field of a struct is ignored.
RECURSIVE Conforms(_, _)
Conforms(v, ty) ==
  \/ ty.k = "any"
  \/ v.t = "null"
  \/ ty.k = "string" /\ v.t = "string"
  \/ ty.k = "int" /\ v.t = "number"
  \/ ty.k = "uint64,string" /\ v.t = "string" /\ IsDigits(v.s)
  \/ ty.k = "bool" /\ v.t \in {"true", "false"}
  \/ ty.k = "float64" /\ v.t \in {"number", "float"}
  \/ ty.k = "time" /\ v.t = "string" /\ IsRFC3339(v.s)
  \/ ty.k = "ptr" /\ Conforms(v, ty.elem)
  \/ /\ ty.k = "struct" /\ v.t = "object"
     /\ \A i \in 1..Len(v.m) :
          FieldIndex(ty.fields, v.m[i].k) # 0 =>
            Conforms(v.m[i].v, ty.fields[FieldIndex(ty.fields, v.m[i].k)].ty)
  \/ /\ (ty.k = "slice" /\ v.t = "array") \/ (ty.k = "map" /\ v.t = "object")
     /\ \A i \in 1..Len(v.m) : Conforms(v.m[i].v, ty.elem)

\* C9: with no error and a non-null result, a method with a result payload
\* returns the result decoded into its target type and a nil error when the
\* result has the target's shape, and a decode error with the zero value
\* when it has not; it never returns a partially filled value with a nil
\* error.
C9_ResultDecoded ==
  \A g \in Goroutines :
    /\ AnsweredOK(g)
    /\ IsEnvelope(gs[g].resp.Body)
    /\ ~HasError(gs[g].resp.Body)
    /\ HasResult(gs[g].resp.Body)
    /\ MethodTable[gs[g].m].payload
    => \E r \in {MemberValue(gs[g].resp.Body.v, "result")} :
       \E ty \in {MethodTable[gs[g].m].ty} :
         /\ gs[g].ret.err = Nil <=> Conforms(r, ty)
         /\ gs[g].ret.err = Nil => gs[g].ret.val = Unmarshal(r, ty, Zero(ty)).val
         /\ gs[g].ret.err # Nil =>
              gs[g].ret.err.kind = "*json.UnmarshalTypeError" /\ gs[g].ret.val = Zero(ty)
         /\ gs[g].m = M("CreateWallet") /\ r = JStr("abc") => gs[g].ret.val = GString("abc")
         /\ gs[g].m = M("GetStatus") /\ r = StatusJSON =>
              /\ Get(gs[g].ret.val, "TorStatus") = GString("Running")
              /\ Get(gs[g].ret.val, "BackendStatus") = GString("Connected")
              /\ Get(gs[g].ret.val, "BestBlockchainHeight") = GInt(800000)
              /\ Get(gs[g].ret.val, "FiltersCount") = GInt(3)
              /\ Get(gs[g].ret.val, "Network") = GString("")

\* C9's case: GetStatus was answered with a status whose filtersCount is a
\* string; the decoder filled the members around it into the target, and the
\* call returned the decode error with the zero value.
C9_Witness ==
  \E g \in Goroutines :
    /\ AnsweredOK(g)
    /\ gs[g].m = M("GetStatus")
    /\ gs[g].resp.Body = Envelope(<<BadStatusJSON>>, <<>>)
    /\ Get(decodeClientResponse(gs[g].resp.Body, Out(gs[g].m)).val, "BackendStatus")
         = GString("Connected")
    /\ gs[g].ret.err = UnmarshalTypeError
    /\ gs[g].ret.val = Zero(GetStatusResponse)

\* Decoding body b into the envelope fails: b is empty, is no JSON text, is
\* a JSON value other than an object or null, or is an object whose jsonrpc
\* member is no string.
Malformed(b) ==
  \/ b.kind \in {"empty", "garbage"}
  \/ b.kind = "json" /\ b.v.t \notin {"object", "null"}
  \/ b.kind = "json" /\ b.v.t = "object" /\ ~IsEnvelope(b)

\* The error member of body b does not decode into an RPCError.
UndecodableError(b) ==
  IsEnvelope(b) /\ HasError(b) /\ ~ErrorShaped(MemberValue(b.v, "error"))

WalletMethods ==
  {"ListCoins", "ListUnspentCoins", "GetWalletInfo", "GetNewAddress", "Send", "Build",
   "Broadcast", "GetHistory", "ListKeys", "StartCoinJoin", "StartCoinJoinSweep",
   "StopCoinJoin", "ExcludeFromCoinJoin", "BuildUnsafeTransaction", "PayInCoinJoin",
   "ListPaymentsInCoinJoin", "CancelPaymentInCoinJoin", "CancelTransaction",
   "SpeedUpTransaction"}

\* C11: the request URL is http://{host}:{port}/{segment}, the segment being
\* the walletName argument for the methods that operate on a loaded wallet
\* and empty for GetStatus, CreateWallet, LoadWallet, RecoverWallet, Stop,
\* GetFeeRates and ListWallets, which pass a wallet name in params instead.
C11_Segment ==
  \A g \in Goroutines :
    HasRequest(g) =>
      /\ gs[g].req.URL =
           "http://" \o client[gs[g].c].host \o ":" \o ToString(client[gs[g].c].port) \o "/"
             \o (IF MethodTable[gs[g].m].name \in WalletMethods THEN gs[g].wallet ELSE "")
      /\ MethodTable[gs[g].m].name \notin WalletMethods =>
           MethodTable[gs[g].m].name \in
             {"GetStatus", "CreateWallet", "LoadWallet", "RecoverWallet", "Stop",
              "GetFeeRates", "ListWallets"}
      /\ MethodTable[gs[g].m].name \in {"CreateWallet", "LoadWallet", "RecoverWallet"} =>
           MemberValue(gs[g].req.Body, "params").m[1].v = JStr(gs[g].wallet)

\* C11's case: requests are out for ListCoins of wallet "w", with the wallet
\* in the path, or for LoadWallet of wallet "w", with an empty path.
C11_Witness ==
  \E g \in Goroutines :
    /\ gs[g].pc = "wait"
    /\ gs[g].wallet = "w"
    /\ \/ gs[g].m = M("ListCoins") /\ gs[g].req.URL = "http://127.0.0.1:1/w"
       \/ gs[g].m = M("LoadWallet") /\ gs[g].req.URL = "http://127.0.0.1:1/"

\* C12 as the specification states it: the requests of concurrent callers
\* of one client are served in the order in which the callers arrived at
\* the lock; no caller takes the lock while a caller that arrived earlier
\* is still waiting for it.
C12_FIFO ==
  [][\A g \in Goroutines :
       gs[g].pc \in {"lock", "blocked"} /\ gs'[g].pc = "do" =>
         waiters[gs[g].c] = <<>> \/ Head(waiters[gs[g].c]) = g]_vars

\* C12, amended: the requests of concurrent callers of one client are sent
\* one at a time, each by the caller that holds the lock; the callers that
\* found the lock held are blocked and have sent nothing.  (In which order
\* they get the lock is left to sync.Mutex.)
C12_ServedUnderLock ==
  \A c \in Clients :
    /\ \A g \in Goroutines :
         /\ gs[g].c = c /\ gs[g].pc \in {"do", "wait", "resp"} => mutex[c] = g
         /\ gs[g].c = c /\ gs[g].pc \in {"lock", "blocked"} => gs[g].posts = 0
         /\ (\E i \in 1..Len(waiters[c]) : waiters[c][i] = g)
              <=> (gs[g].c = c /\ gs[g].pc = "blocked")
    /\ \A i \in 1..Len(waiters[c]) : \A j \in 1..Len(waiters[c]) :
         waiters[c][i] = waiters[c][j] => i = j
    /\ waiters[c] # <<>> /\ mutex[c] # 0 => gs[mutex[c]].c = c

\* C12's case: a request of a client is with the transport while another
\* caller of the same client is blocked on the lock.
C12_Witness ==
  \E c \in Clients : \E g \in Goroutines : \E h \in Goroutines :
    /\ g # h
    /\ mutex[c] = g /\ gs[g].pc = "wait"
    /\ waiters[c] = <<h>> /\ gs[h].pc = "blocked" /\ gs[h].req # NoRequest


\* C13: round-trip law.  When a server answers a method that has a result
\* payload with HTTP 200 and an envelope whose result is the encoding of a
\* value v of the method's result type, and no error member, the method
\* returns a value equal to v and a nil error; GetStatus answered with
\* bestBlockchainHeight "800000" returns the height 800000.
C13_RoundTrip ==
  \A g \in Goroutines :
    AnsweredOK(g) /\ MethodTable[gs[g].m].payload =>
      \A x \in RoundTripValues :
        x.ty = MethodTable[gs[g].m].ty /\ gs[g].resp.Body = Encoded(x) =>
          /\ gs[g].ret.err = Nil
          /\ gs[g].ret.val = x.val
          /\ x.val = StatusValue =>
               /\ MemberValue(MemberValue(gs[g].resp.Body.v, "result"),
                              "bestBlockchainHeight") = JStr("800000")
               /\ Get(gs[g].ret.val, "BestBlockchainHeight") = GInt(800000)

\* C13's case: GetStatus was answered with the encoding of a status that
\* has two peers, and returned that status.
C13_Witness ==
  \E g \in Goroutines :
    /\ AnsweredOK(g)
    /\ gs[g].m = M("GetStatus")
    /\ gs[g].resp.Body = Encoded(Typed(GetStatusResponse, StatusValue))
    /\ gs[g].ret = [val |-> StatusValue, err |-> Nil]
    /\ Len(Get(gs[g].ret.val, "Peers").m) = 2


\* The goroutines inside the locked part of do on client c.
Executing(c) == {g \in Goroutines : gs[g].c = c /\ gs[g].pc \in {"do", "wait", "resp"}}

\* C14: calls on two distinct clients never block each other.  A mutex is
\* held only by a call on its own client, so a call on a client whose other
\* callers are all outside the locked part of do finds the mutex free,
\* whatever the calls on other clients are doing; the requests in flight
\* are counted per client.
C14_Independent ==
  /\ \A c \in Clients :
       /\ mutex[MutexOf(c)] # 0 => mutex[MutexOf(c)] \in Executing(c)
       /\ Executing(c) = {} => MutexIsFree(mutex[MutexOf(c)])
       /\ inflight[c] = Cardinality(InFlight(c))
  /\ \A g \in Goroutines :
       gs[g].pc \in {"lock", "blocked"} /\ Executing(gs[g].c) = {} =>
         ENABLED (Lock(g) /\ gs'[g].pc = "do")

\* C14's case: two clients, each with a request in flight at the same
\* moment, each call holding the mutex of its own client.
C14_Witness ==
  \E g \in Goroutines : \E h \in Goroutines :
    /\ gs[g].c = 1 /\ gs[g].pc = "wait" /\ mutex[MutexOf(1)] = g
    /\ gs[h].c = 2 /\ gs[h].pc = "wait" /\ mutex[MutexOf(2)] = h
    /\ inflight[1] = 1 /\ inflight[2] = 1


\* The goroutines inside IsWasabiWalletUp, or just back from it.
Probing(g) == gs[g].pc \in {"probe", "probed"}

\* C15: IsWasabiWalletUp never takes the client's mutex, so it can start and
\* complete while an RPC call of the same client is in flight; it sends no
\* JSON-RPC request; it dials the client's host:port and returns true
\* exactly when the connect succeeded; and no connection it opened is still
\* open when it has returned.
C15_Probe ==
  \A g \in Goroutines :
    /\ Probing(g) =>
         /\ mutex[MutexOf(gs[g].c)] # g
         /\ \A c \in Clients : \A i \in 1..Len(waiters[c]) : waiters[c][i] # g
         /\ gs[g].req = NoRequest /\ gs[g].posts = 0
         /\ g \notin InFlight(gs[g].c)
         /\ inflight[gs[g].c] = Cardinality(InFlight(gs[g].c))
         /\ gs[g].addr = client[gs[g].c].host \o ":" \o ToString(client[gs[g].c].port)
    /\ gs[g].pc = "idle" =>
         \A c \in Clients : client[c].state = "ok" =>
           \A up \in BOOLEAN : ENABLED IsWasabiWalletUp(g, c, up)
    /\ gs[g].pc = "probe" =>
         /\ gs[g].conn \in {"none", "open"}
         /\ ENABLED IsWasabiWalletUpReturn(g)
    /\ gs[g].pc = "probed" =>
         /\ gs[g].conn \in {"none", "closed"}
         /\ gs[g].ret = [val |-> GBool(gs[g].conn = "closed"), err |-> Nil]

\* C15's case: a goroutine has dialed, got a connection and returned true
\* with the connection closed, while the request of another goroutine's call
\* on the same client is in flight under the client's mutex.
C15_Witness ==
  \E g \in Goroutines : \E h \in Goroutines :
    /\ gs[g].pc = "probed" /\ gs[g].conn = "closed" /\ gs[g].ret.val = GBool(TRUE)
    /\ gs[g].addr = "127.0.0.1:1"
    /\ gs[h].c = gs[g].c /\ gs[h].pc = "wait" /\ mutex[MutexOf(gs[h].c)] = h


\* The header set of client c: the contents of the map its headers field
\* refers to.
HeaderSet(c) == IF client[c].headers = NilMap THEN {} ELSE heap[client[c].headers]

\* The request of goroutine g, if it has one, was built from the fields of
\* its client: the host and port in the URL, and headers that come from
\* setting every entry of the client's header set (exactly its entries under
\* their canonical names when no two of them share a canonical name).
BuiltFromClient(g) ==
  HasRequest(g) =>
    /\ \E seg \in {"", gs[g].wallet} :
         gs[g].req.URL = "http://" \o client[gs[g].c].host \o ":"
                           \o ToString(client[gs[g].c].port) \o "/" \o seg
    /\ \A h \in gs[g].req.Header : \E kv \in HeaderSet(gs[g].c) :
         h = <<CanonicalMIMEHeaderKey(kv[1]), kv[2]>>
    /\ MapKeys(gs[g].req.Header) = {CanonicalMIMEHeaderKey(kv[1]) : kv \in HeaderSet(gs[g].c)}
    /\ (\A a \in HeaderSet(gs[g].c) : \A b \in HeaderSet(gs[g].c) :
          CanonicalMIMEHeaderKey(a[1]) = CanonicalMIMEHeaderKey(b[1]) => a = b)
         => gs[g].req.Header =
              {<<CanonicalMIMEHeaderKey(kv[1]), kv[2]>> : kv \in HeaderSet(gs[g].c)}

EncodeError == Err("*fmt.wrapError", 0, "failed to generate request id", GNil)

\* A goroutine that has called a method (do has run at least up to the
\* mutex, or has returned).
Called(g) == gs[g].pc \in {"lock", "blocked", "do", "wait", "resp", "done"}

\* C17: the envelope of every request has jsonrpc "2.0", the wire name of
\* the invoked method and an id that is a whole number with
\* 0 <= id < 2^63 - 1 (in limbs of 16 bits: below <<32767, 65535, 65535,
\* 65535>>); the encoding fails exactly when the random source fails (the
\* params the wrappers pass always serialise), and then the call returns
\* that error and no HTTP request was built or sent.
C17_Envelope ==
  \A g \in Goroutines :
    /\ HasRequest(g) =>
         /\ gs[g].rnd.ok
         /\ gs[g].req.Body.t = "object"
         /\ [i \in 1..Len(gs[g].req.Body.m) |-> gs[g].req.Body.m[i].k]
              = <<"jsonrpc", "method", "params", "id">>
         /\ gs[g].req.Body.m[1].v = JStr("2.0")
         /\ gs[g].req.Body.m[2].v = JStr(MethodTable[gs[g].m].wire)
         /\ \E id \in {[i \in 1..4 |-> gs[g].req.Body.m[4].v.m[i].v.n]} :
              /\ gs[g].req.Body.m[4].v.t = "number"
              /\ id = gs[g].rnd.val
              /\ \A i \in 1..4 : id[i] \in 0..65535
              /\ id # <<32767, 65535, 65535, 65535>>
              /\ id[1] <= 32767
    /\ Called(g) /\ ~gs[g].rnd.ok =>
         /\ gs[g].pc = "done"
         /\ gs[g].ret = [val |-> ZeroOf(gs[g].m), err |-> EncodeError]
         /\ gs[g].req = NoRequest /\ gs[g].posts = 0 /\ gs[g].resp = NoResponse
    /\ gs[g].pc = "done" /\ gs[g].ret.err = EncodeError => ~gs[g].rnd.ok

\* C17's case: a ListCoins request whose id is the largest rand.Int can
\* give, 2^63 - 2, was sent.
C17_Witness ==
  \E g \in Goroutines :
    /\ gs[g].pc = "wait" /\ gs[g].posts = 1
    /\ gs[g].req.Body.m[4] = Member("id", JWide(<<32767, 65535, 65535, 65534>>))
    /\ gs[g].req.Body.m[2] = Member("method", JStr("listcoins"))


\* C18: the mutex is released on every exit path of a call that took it
\* (transport error, status other than 200, envelope that does not decode,
\* RPC error, null result, success): a goroutine outside the locked part of
\* do holds no mutex, and the mutex of a client none of whose calls is
\* inside the locked part is free, so that a later call can take it.
C18_Released ==
  /\ \A g \in Goroutines :
       gs[g].pc \notin {"do", "wait", "resp"} =>
         \A c \in Clients : mutex[MutexOf(c)] # g
  /\ \A c \in Clients :
       (\A g \in Goroutines : gs[g].c = c => gs[g].pc \notin {"do", "wait", "resp"})
         => mutex[MutexOf(c)] = 0
  /\ \A h \in Goroutines :
       /\ gs[h].pc \in {"lock", "blocked"}
       /\ \A g \in Goroutines : gs[g].c = gs[h].c => gs[g].pc \notin {"do", "wait", "resp"}
       => ENABLED (Lock(h) /\ gs'[h].pc = "do")

\* C18's case: a call took the mutex, sent its request and failed (the
\* answer had status 500, or an envelope that does not decode), and the
\* mutex is free again.
C18_Witness ==
  \E g \in Goroutines :
    /\ gs[g].pc = "done" /\ gs[g].posts = 1
    /\ gs[g].resp.ok /\ gs[g].ret.err # Nil
    /\ gs[g].resp.StatusCode = 500 \/ gs[g].resp.Body = GarbageBody
    /\ mutex[MutexOf(gs[g].c)] = 0


\* C19: a method without result payload returns a nil error for every 200
\* response that is an envelope with no error member, whether its result is
\* null or absent or any non-null value.
C19_NoPayloadSucceeds ==
  \A g \in Goroutines :
    /\ AnsweredOK(g)
    /\ IsEnvelope(gs[g].resp.Body)
    /\ ~HasError(gs[g].resp.Body)
    /\ ~MethodTable[gs[g].m].payload
    => gs[g].ret.err = Nil


\* C20: the body of every HTTP response a call obtained is closed when the
\* call has returned, on every path: status other than 200, envelope that
\* does not decode, RPC error, null result, success.
C20_BodyClosed ==
  \A g \in Goroutines :
    gs[g].pc = "done" /\ gs[g].resp.ok => ~gs[g].bodyOpen


\* C21: the headers a client sends are fixed when NewClient returns.
\* NewClient and Validate leave the caller's Config and the contents of the
\* caller's CustomHeaders map as they were, and no later step, a write of
\* the caller to that map included, changes the header set of a
\* constructed client.
C21_HeadersFixed ==
  [][\A c \in Clients :
       /\ \A in \in AliasConfigs :
            NewClient(c, in) =>
              /\ cfg'[c].Host = in.Host /\ cfg'[c].Port = in.Port
              /\ cfg'[c].RpcUser = in.RpcUser /\ cfg'[c].RpcPassword = in.RpcPassword
              /\ cfg'[c].CustomHeaders = NilMap <=> in.nilHeaders
              /\ ~in.nilHeaders => heap'[cfg'[c].CustomHeaders] = in.headers
       /\ client[c].state = "ok" => HeaderSet(c)' = HeaderSet(c)]_vars

\* The half of C21 that is about construction, alone: NewClient and
\* Validate leave the caller's Config and the contents of its map as they
\* were (the copy Validate works on gets the default port and, when the
\* caller gave credentials and no map, a map of its own).
C21_CallerConfigKept ==
  [][\A c \in Clients : \A in \in AliasConfigs :
       NewClient(c, in) =>
         /\ cfg'[c].Host = in.Host /\ cfg'[c].Port = in.Port
         /\ cfg'[c].RpcUser = in.RpcUser /\ cfg'[c].RpcPassword = in.RpcPassword
         /\ cfg'[c].CustomHeaders = NilMap <=> in.nilHeaders
         /\ ~in.nilHeaders => heap'[cfg'[c].CustomHeaders] = in.headers]_vars

\* What the alias leads to: the client's headers field refers to the map
\* the caller passed, and a request sent after the caller wrote to that map
\* carries a header the Config did not hold when NewClient returned.
C21_ChangedHeaderSent ==
  \E g \in Goroutines :
    /\ gs[g].pc = "wait"
    /\ cfg[gs[g].c].CustomHeaders # NilMap
    /\ client[gs[g].c].headers = cfg[gs[g].c].CustomHeaders
    /\ gs[g].req.Header = {<<"X-Api", "k">>, <<"X-New", "z">>}

=============================================================================
